---- MODULE Spec2Model ----
\* The escalation-aware chat session of src/src/pages/ConsumerChat.tsx:
\* session bootstrap (loadProductData), the exchange engine (sendMessage) and
\* the feedback and escalation engine (handleFeedback), run against a Record
\* Store (blink.db) and a Response Generator (blink.ai) that may fail.
\* Every await of the source is a point where the handler is suspended: each
\* handler is one action per segment between two awaits.
EXTENDS Integers, Sequences, FiniteSets, TLC

VARIABLES
    dbProducts,      \* Record Store: the products table (a set of records)
    dbBusinesses,    \* Record Store: the businesses table
    chatLogs,        \* Record Store: the chatLogs table, oldest first (timestamp order)
    escalations,     \* Record Store: the escalations table, oldest first
    pcBoot,          \* per session: where loadProductData is
    product,         \* per session: useState product
    business,        \* per session: useState business
    messages,        \* per session: useState messages
    loading,         \* per session: useState loading
    sending,         \* per session: useState sending
    showEscalation,  \* per session: useState showEscalation
    unhelpfulCount,  \* per session: useState unhelpfulCount
    sends,           \* per session: the sendMessage calls suspended at an await
    fbs,             \* per session: the handleFeedback calls suspended at an await
    unhandled,       \* per session: rejections that escaped a handler
    hist,            \* per session: history of the calls made (for the properties only)
    lim,             \* the scenario: bounds on the calls the environment makes
    last,            \* the last step taken (for the properties only)
    user,            \* AuthProvider: useState user
    isLoading,       \* AuthProvider: useState isLoading
    localStorage     \* the entry 'hmih_user' of the browser's localStorage

vars == <<dbProducts, dbBusinesses, chatLogs, escalations, pcBoot, product,
          business, messages, loading, sending, showEscalation, unhelpfulCount,
          sends, fbs, unhandled, hist, lim, last, user, isLoading, localStorage>>

authVars == <<user, isLoading, localStorage>>

chatVars == <<dbProducts, dbBusinesses, chatLogs, escalations, pcBoot, product,
              business, messages, loading, sending, showEscalation,
              unhelpfulCount, sends, fbs, unhandled, hist>>

store == <<dbProducts, dbBusinesses, chatLogs, escalations>>

\* ---------------------------------------------------------------- bounds
NumSessions == 2
MaxSends == 1
MaxFeedback == 1
MaxOverlap == 1
MaxQuestions == 2
BootSends == 1
BootFeedback == 1
EscSends == 1
EscFeedback == 21
TabSends == 1
TabFeedback == 20
OverlapCalls == 2
OverlapFeedback == 2
NumUsers == 2

\* ---------------------------------------------------------------- constants
BootThreshold == 20
EscalationThreshold == 20
ListLimit == 10
MaxTokens == 300

Sessions == 1..NumSessions
Null == [kind |-> "null"]

\* Strings the code trims or compares are sequences of characters.
Ws == " "
Inputs == { <<>>, <<Ws>>, <<"a">>, <<Ws, "b", Ws>> }
Texts == { <<>>, <<"r">> }
Apology == <<"I", Ws, "a", "p", "o", "l", "o", "g", "i", "z", "e">>
ProductId == "p1"
ProductName == <<"K">>

RECURSIVE TrimStart(_)
TrimStart(str) ==
    IF str # <<>> /\ Head(str) = Ws THEN TrimStart(Tail(str)) ELSE str

RECURSIVE TrimEnd(_)
TrimEnd(str) ==
    IF str # <<>> /\ str[Len(str)] = Ws
    THEN TrimEnd(SubSeq(str, 1, Len(str) - 1))
    ELSE str

\* String.prototype.trim
Trim(str) == TrimEnd(TrimStart(str))

\* JavaScript truthiness of a string
Truthy(str) == str # <<>>

RECURSIVE Reverse(_)
Reverse(seq) ==
    IF seq = <<>> THEN <<>> ELSE Append(Reverse(Tail(seq)), Head(seq))

Take(seq, n) == SubSeq(seq, 1, IF Len(seq) < n THEN Len(seq) ELSE n)

\* ---------------------------------------------------------------- Record Store
TheProduct(model) ==
    [id |-> ProductId, name |-> ProductName, description |-> <<"d">>,
     chosenModel |-> model, businessId |-> "b1"]

TheBusiness ==
    [id |-> "b1", name |-> <<"B">>, emailSupport |-> <<"e">>, phoneSupport |-> <<>>]

\* The chat logs persisted before any session of the model starts: h exchanges
\* of the product marked unhelpful, then one unhelpful exchange of another product.
RECURSIVE History(_)
History(h) ==
    IF h = 0 THEN <<>>
    ELSE Append(History(h - 1),
                [id |-> h, productId |-> ProductId, question |-> <<"h">>,
                 response |-> <<"h">>, sessionId |-> 0, isHelpful |-> "0"])

ForeignLog(n) ==
    [id |-> n, productId |-> "p2", question |-> <<"h">>, response |-> <<"h">>,
     sessionId |-> 0, isHelpful |-> "0"]

\* blink.db.<table>.list({ where: { id } , limit: 1 })
ListById(table, id) == { r \in table : r.id = id }

\* blink.db.chatLogs.list({ where: { productId, isHelpful: "0" } })
ListUnhelpful(logs, pid) ==
    SelectSeq(logs, LAMBDA r : r.productId = pid /\ r.isHelpful = "0")

\* blink.db.chatLogs.list({ where: { productId }, orderBy: { timestamp: 'desc' }, limit: 10 })
ListRecent(logs, pid) ==
    Take(Reverse(SelectSeq(logs, LAMBDA r : r.productId = pid)), ListLimit)

\* the behaviour of an update that rewrites the row from the feedback alone
UpdateRewritesRow(logs, id, flag) ==
    [i \in 1..Len(logs) |->
        IF logs[i].id = id
        THEN [logs[i] EXCEPT !.isHelpful = flag, !.response = <<>>]
        ELSE logs[i]]

\* blink.db.chatLogs.update(id, { isHelpful })
UpdateHelpful(logs, id, flag) ==
    [i \in 1..Len(logs) |->
        IF logs[i].id = id THEN [logs[i] EXCEPT !.isHelpful = flag] ELSE logs[i]]

\* isHelpful ? "1" : "0"
StoreFlag(isHelpful) == IF isHelpful THEN "1" ELSE "0"

\* ---------------------------------------------------------------- session state
WelcomeId == <<"welcome", 0>>

WelcomeText(name) == <<"H", "e", "l", "l", "o", Ws>> \o name

WelcomeMessage(prod) ==
    [id |-> WelcomeId, type |-> "ai", content |-> WelcomeText(prod.name),
     isHelpful |-> "unset"]

\* `${kind}_${Date.now()}`: the clock only grows, the position in the
\* sequence stands for it
MsgId(kind, msgs) == <<kind, Len(msgs) + 1>>

\* acks counts the toasts of handleFeedback; logOf pairs the identifier of an
\* assistant message with the identifier of the chat log row written for it;
\* lastFb is the thumb of the latest handleFeedback call
NoHist == [sends |-> 0, fbTrue |-> 0, fbFalse |-> 0, escCreated |-> 0,
           histAtBoot |-> -1, fbFailed |-> FALSE, acks |-> 0, logOf |-> {},
           lastFb |-> "unset"]

Step(op, s, input) == [op |-> op, s |-> s, input |-> input]

InitChat ==
    /\ pcBoot = [s \in Sessions |-> "unmounted"]
    /\ product = [s \in Sessions |-> Null]
    /\ business = [s \in Sessions |-> Null]
    /\ messages = [s \in Sessions |-> <<>>]
    /\ loading = [s \in Sessions |-> TRUE]
    /\ sending = [s \in Sessions |-> FALSE]
    /\ showEscalation = [s \in Sessions |-> FALSE]
    /\ unhelpfulCount = [s \in Sessions |-> 0]
    /\ sends = [s \in Sessions |-> <<>>]
    /\ fbs = [s \in Sessions |-> <<>>]
    /\ unhandled = [s \in Sessions |-> 0]
    /\ hist = [s \in Sessions |-> NoHist]
    /\ last = Step("Init", 0, <<>>)

\* localStorage has no entry 'hmih_user'
NoItem == [present |-> FALSE, text |-> <<>>]

\* localStorage.setItem('hmih_user', text)
Item(text) == [present |-> TRUE, text |-> text]

\* useState<User | null>(null), useState(true), over the stored entry the
\* browser starts with
InitAuthProvider(item) ==
    /\ user = Null
    /\ isLoading = TRUE
    /\ localStorage = item

\* The chat page of a visitor: nothing is stored under 'hmih_user'
InitSession == InitChat /\ InitAuthProvider(NoItem)

InitStore(productTables, businessTables, h) ==
    /\ dbProducts \in productTables
    /\ dbBusinesses \in businessTables
    /\ chatLogs = Append(History(h), ForeignLog(h + 1))
    /\ escalations = <<>>

\* The calls the environment makes in a scenario: the sessions opened, the
\* number of questions and of feedback calls, the thumbs clicked, the number
\* of feedback calls in flight at once, the inputs typed and the texts the
\* generator returns; history is the number of unhelpful exchanges of the
\* product the store starts with; failures: the store and the generator may
\* reject; direct: handleFeedback is called with any identifier, not only
\* through a rendered button; serial: the tabs are used one after the other;
\* patient: thumbs are clicked only when no sendMessage call is in flight;
\* auth: signIn and signOut are called; stored: the entry 'hmih_user' the
\* browser starts with.
Scenario(sessions, nsends, feedback, thumbs, overlap, inputs, texts, h) ==
    [sessions |-> sessions, sends |-> nsends, feedback |-> feedback,
     thumbs |-> thumbs, overlap |-> overlap, inputs |-> inputs, texts |-> texts,
     history |-> h, failures |-> TRUE, direct |-> FALSE, serial |-> FALSE,
     auth |-> FALSE, stored |-> NoItem, patient |-> FALSE]

\* Exchanges: one session of an existing product with no history, questions
\* of every kind, every outcome of the generator and of the store.
InitExchange ==
    /\ InitSession
    /\ InitStore({ {TheProduct("gpt4o")} }, { {TheBusiness} }, 0)
    /\ lim = Scenario({1}, MaxSends, MaxFeedback, BOOLEAN, MaxOverlap,
                      Inputs, Texts, 0)

\* Bootstrap: every shape of the store (product or business missing, history
\* below and at the threshold), then an exchange and feedback.
InitBoot ==
    /\ InitSession
    /\ \E h \in {0, BootThreshold - 1, BootThreshold} :
          /\ InitStore({ {}, {TheProduct("claude")} }, { {}, {TheBusiness} }, h)
          /\ lim = Scenario({1}, BootSends, BootFeedback, BOOLEAN, 1,
                            {<<>>, <<"a">>}, {<<"r">>}, h)

\* Escalation: one session with no history, one exchange, then unhelpful
\* feedback calls made one after another until the threshold is passed.
InitEsc ==
    /\ InitSession
    /\ InitStore({ {TheProduct("gpt4o")} }, { {TheBusiness} }, 0)
    /\ lim = Scenario({1}, EscSends, EscFeedback, {FALSE}, 1,
                      {<<"a">>}, {<<"r">>}, 0)

\* Questions: one session that only asks, several questions in a row.
InitQuestions ==
    /\ InitSession
    /\ InitStore({ {TheProduct("gpt4o")}, {TheProduct("")} }, { {TheBusiness} }, 0)
    /\ lim = Scenario({1}, MaxQuestions, 0, {}, 1, Inputs, {<<"r">>}, 0)

Init == InitExchange \/ InitBoot \/ InitEsc \/ InitQuestions

\* The two browser tabs
Tabs == {1, 2}

\* Tabs: two sessions open on the same product, each with one exchange and
\* then unhelpful feedback calls made one after another, the Record Store and
\* the generator never rejecting.
InitTabs ==
    /\ InitSession
    /\ InitStore({ {TheProduct("gpt4o")} }, { {TheBusiness} }, 0)
    /\ lim = [Scenario(Tabs, TabSends, TabFeedback, {FALSE}, 1,
                       {<<"a">>}, {<<"r">>}, 0)
                 EXCEPT !.failures = FALSE, !.serial = TRUE]

\* Overlap: one session, one completed exchange, then thumbs clicked in
\* quick succession, a call starting while the previous one awaits the
\* Record Store, which never rejects.
InitOverlap ==
    /\ InitSession
    /\ InitStore({ {TheProduct("gpt4o")} }, { {TheBusiness} }, 0)
    /\ lim = [Scenario({1}, MaxSends, OverlapFeedback, BOOLEAN, OverlapCalls,
                       {<<"a">>}, {<<"r">>}, 0)
                 EXCEPT !.failures = FALSE, !.patient = TRUE]

\* Direct: handleFeedback is called with any identifier (the welcome message,
\* a user message, an identifier of no message), after one exchange.
InitDirect ==
    /\ InitSession
    /\ InitStore({ {TheProduct("gpt4o")} }, { {TheBusiness} }, 0)
    /\ lim = [Scenario({1}, MaxSends, MaxFeedback, BOOLEAN, 1,
                       {<<"a">>}, {<<"r">>}, 0) EXCEPT !.direct = TRUE]

\* In a serial scenario the user works in one tab after the other: the earlier
\* tabs have made all their calls and none of them is in flight.
Turn(s) ==
    lim.serial =>
        \A t \in lim.sessions :
            t < s => /\ hist[t].sends = lim.sends
                     /\ hist[t].fbTrue + hist[t].fbFalse = lim.feedback
                     /\ sends[t] = <<>> /\ fbs[t] = <<>>

\* ---------------------------------------------------------------- loadProductData
\* useEffect: if (productId) loadProductData()
Mount(s) ==
    /\ UNCHANGED authVars
    /\ s \in lim.sessions
    /\ pcBoot[s] = "unmounted"
    /\ pcBoot' = [pcBoot EXCEPT ![s] = "products"]
    /\ last' = Step("Mount", s, <<>>)
    /\ UNCHANGED <<store, product, business, messages, loading, sending,
                   showEscalation, unhelpfulCount, sends, fbs, unhandled, hist, lim>>

\* the behaviour of setLoading(false) placed at the end of the try block
\* instead of in finally: the early return leaves loading set
LoadingWithoutFinally(exit) == exit = "return"

\* finally { setLoading(false) }: whichever way loadProductData is left (the
\* early return of not found, the end of the try block, the catch)
LoadingAfter(exit) == FALSE

\* products.list resolves: not found (toast, return) or setProduct and the
\* businesses query starts
ProductsReturn(s) ==
    /\ UNCHANGED authVars
    /\ pcBoot[s] = "products"
    /\ LET productData == ListById(dbProducts, ProductId) IN
         IF productData = {}
         THEN /\ pcBoot' = [pcBoot EXCEPT ![s] = "done"]
              /\ loading' = [loading EXCEPT ![s] = LoadingAfter("return")]
              /\ UNCHANGED product
         ELSE /\ pcBoot' = [pcBoot EXCEPT ![s] = "businesses"]
              /\ product' = [product EXCEPT ![s] = CHOOSE p \in productData : TRUE]
              /\ UNCHANGED loading
    /\ last' = Step("ProductsReturn", s, <<>>)
    /\ UNCHANGED <<store, business, messages, sending, showEscalation,
                   unhelpfulCount, sends, fbs, unhandled, hist, lim>>

\* the behaviour of a bootstrap that returns when the business is missing
AfterBusinessesRequired(businessData) ==
    IF businessData = {} THEN "done" ELSE "chatLogs"

\* if (businessData.length > 0) { setBusiness(...) }, then the history query,
\* whether a business was found or not
AfterBusinesses(businessData) == "chatLogs"

\* businesses.list resolves: setBusiness when found, the history query starts
BusinessesReturn(s) ==
    /\ UNCHANGED authVars
    /\ pcBoot[s] = "businesses"
    /\ LET businessData == ListById(dbBusinesses, product[s].businessId) IN
         business' = [business EXCEPT ![s] =
            IF businessData # {} THEN CHOOSE b \in businessData : TRUE ELSE Null]
    /\ pcBoot' = [pcBoot EXCEPT ![s] =
          AfterBusinesses(ListById(dbBusinesses, product[s].businessId))]
    /\ last' = Step("BusinessesReturn", s, <<>>)
    /\ UNCHANGED <<store, product, messages, loading, sending, showEscalation,
                   unhelpfulCount, sends, fbs, unhandled, hist, lim>>

\* the bug "escalationCount.length > 20"
EscalatedAboveAtBoot(count) == count > BootThreshold

\* escalationCount.length >= 20
EscalatedAtBoot(count) == count >= BootThreshold

\* chatLogs.list resolves: the escalation check, the welcome message, finally
HistoryReturn(s) ==
    /\ UNCHANGED authVars
    /\ pcBoot[s] = "chatLogs"
    /\ LET escalationCount == ListUnhelpful(chatLogs, ProductId) IN
         /\ showEscalation' = [showEscalation EXCEPT ![s] =
               IF EscalatedAtBoot(Len(escalationCount)) THEN TRUE ELSE @]
         /\ hist' = [hist EXCEPT ![s].histAtBoot = Len(escalationCount)]
    /\ messages' = [messages EXCEPT ![s] = <<WelcomeMessage(product[s])>>]
    /\ loading' = [loading EXCEPT ![s] = LoadingAfter("end")]
    /\ pcBoot' = [pcBoot EXCEPT ![s] = "done"]
    /\ last' = Step("HistoryReturn", s, <<>>)
    /\ UNCHANGED <<store, product, business, sending, unhelpfulCount, sends,
                   fbs, unhandled, lim>>

\* any of the three queries rejects: catch (console.error, toast), finally
BootThrow(s) ==
    /\ UNCHANGED authVars
    /\ lim.failures
    /\ pcBoot[s] \in {"products", "businesses", "chatLogs"}
    /\ loading' = [loading EXCEPT ![s] = LoadingAfter("catch")]
    /\ pcBoot' = [pcBoot EXCEPT ![s] = "done"]
    /\ last' = Step("BootThrow", s, <<>>)
    /\ UNCHANGED <<store, product, business, messages, sending, showEscalation,
                   unhelpfulCount, sends, fbs, unhandled, hist, lim>>

\* ---------------------------------------------------------------- sendMessage
\* the bug "if (!inputMessage.trim() || !product) return"
SendAcceptsWhileSending(inputMessage, prod, snd) ==
    /\ Truthy(Trim(inputMessage))
    /\ prod # Null

\* the bug "if (!inputMessage || !product || sending) return"
SendAcceptsUntrimmed(inputMessage, prod, snd) ==
    /\ Truthy(inputMessage)
    /\ prod # Null
    /\ ~snd

\* if (!inputMessage.trim() || !product || sending) return
SendAccepts(inputMessage, prod, snd) ==
    /\ Truthy(Trim(inputMessage))
    /\ prod # Null
    /\ ~snd

\* the behaviour of a lookup that passes an unknown identifier through
GeneratorModelPassThrough(chosenModel) ==
    IF chosenModel = "gpt4o" THEN "gpt-4o-mini" ELSE chosenModel

\* product.chosenModel === 'gpt4o' ? 'gpt-4o-mini' : 'gpt-4o-mini'
GeneratorModel(chosenModel) ==
    IF chosenModel = "gpt4o" THEN "gpt-4o-mini" ELSE "gpt-4o-mini"

\* the bug "content: inputMessage"
UserMessageUntrimmed(inputMessage, msgs) ==
    [id |-> MsgId("user", msgs), type |-> "user", content |-> inputMessage,
     isHelpful |-> "unset"]

UserMessage(inputMessage, msgs) ==
    [id |-> MsgId("user", msgs), type |-> "user", content |-> Trim(inputMessage),
     isHelpful |-> "unset"]

AiMessage(text, msgs) ==
    [id |-> MsgId("ai", msgs), type |-> "ai", content |-> text, isHelpful |-> "unset"]

ErrorMessage(msgs) ==
    [id |-> MsgId("error", msgs), type |-> "ai", content |-> Apology,
     isHelpful |-> "unset"]

\* the bug of a try block that starts after generateText
SendTryCoversLogOnly(site) == site = "chatLogs.create"

\* The awaits of sendMessage that lie inside its try block: a rejection there
\* runs the catch block.
SendTryCovers(site) == site \in {"generateText", "chatLogs.create"}

\* The catch block of sendMessage: the apology message is appended.
SendCatch(msgs) == Append(msgs, ErrorMessage(msgs))

\* The exchange a ChatLog row is created from
ChatLog(id, prod, call, sessionId) ==
    [id |-> id, productId |-> prod.id, question |-> call.userMessage.content,
     response |-> call.text, sessionId |-> sessionId, isHelpful |-> "unset"]

RemoveAt(seq, i) == SubSeq(seq, 1, i - 1) \o SubSeq(seq, i + 1, Len(seq))

\* sendMessage is called with the input box holding inputMessage: ignored, or
\* the user message is appended, sending is set and generateText starts
SendMessage(s, inputMessage) ==
    /\ UNCHANGED authVars
    /\ s \in lim.sessions
    /\ ~loading[s]
    /\ IF SendAccepts(inputMessage, product[s], sending[s])
       THEN /\ hist[s].sends < lim.sends
            /\ Turn(s)
            /\ LET userMessage == UserMessage(inputMessage, messages[s]) IN
                 /\ messages' = [messages EXCEPT ![s] = Append(@, userMessage)]
                 /\ sends' = [sends EXCEPT ![s] = Append(@,
                      [pc |-> "generateText", userMessage |-> userMessage,
                       model |-> GeneratorModel(product[s].chosenModel),
                       maxTokens |-> MaxTokens, text |-> <<>>,
                       input |-> inputMessage, len0 |-> Len(messages[s]),
                       aiId |-> <<"none", 0>>])]
            /\ sending' = [sending EXCEPT ![s] = TRUE]
            /\ hist' = [hist EXCEPT ![s].sends = @ + 1]
            /\ last' = Step("SendMessage", s, inputMessage)
       ELSE /\ last' = Step("SendIgnored", s, inputMessage)
            /\ UNCHANGED <<messages, sends, sending, hist>>
    /\ UNCHANGED <<store, pcBoot, product, business, loading, showEscalation,
                   unhelpfulCount, fbs, unhandled, lim>>

\* the behaviour of a sendMessage that starts the log write before it shows
\* the answer
ShowAnswerAfterLog(msgs, aiMessage) == msgs

\* setMessages(prev => [...prev, aiMessage]), before chatLogs.create is called
ShowAnswer(msgs, aiMessage) == Append(msgs, aiMessage)

\* generateText resolves with text: the assistant message is appended and the
\* log write starts
GenReturn(s, i, text) ==
    /\ UNCHANGED authVars
    /\ i \in 1..Len(sends[s])
    /\ sends[s][i].pc = "generateText"
    /\ messages' = [messages EXCEPT ![s] = ShowAnswer(@, AiMessage(text, @))]
    /\ sends' = [sends EXCEPT ![s][i].pc = "chatLogs.create", ![s][i].text = text,
                              ![s][i].aiId = MsgId("ai", messages[s])]
    /\ last' = Step("GenReturn", s, <<>>)
    /\ UNCHANGED <<store, pcBoot, product, business, loading, sending,
                   showEscalation, unhelpfulCount, fbs, unhandled, hist, lim>>

\* the behaviour of setSending(false) placed at the end of the try block
\* instead of in finally: the catch path leaves sending set
SendingWithoutFinally(exit) == exit = "catch"

\* finally { setSending(false) }: after the end of the try block and after
\* the catch alike
SendingAfter(exit) == FALSE

\* chatLogs.create resolves: the row is stored; finally
LogReturn(s, i) ==
    /\ UNCHANGED authVars
    /\ i \in 1..Len(sends[s])
    /\ sends[s][i].pc = "chatLogs.create"
    /\ chatLogs' = Append(chatLogs,
          ChatLog(Len(chatLogs) + 1, product[s], sends[s][i], s))
    /\ sending' = [sending EXCEPT ![s] = SendingAfter("end")]
    /\ sends' = [sends EXCEPT ![s] = RemoveAt(@, i)]
    /\ hist' = [hist EXCEPT ![s].logOf =
          @ \cup {<<sends[s][i].aiId, Len(chatLogs) + 1>>}]
    /\ last' = Step("LogReturn", s, <<>>)
    /\ UNCHANGED <<dbProducts, dbBusinesses, escalations, pcBoot, product,
                   business, messages, loading, showEscalation, unhelpfulCount,
                   fbs, unhandled, lim>>

\* generateText or chatLogs.create rejects: catch when inside the try; finally
SendThrow(s, i) ==
    /\ UNCHANGED authVars
    /\ lim.failures
    /\ i \in 1..Len(sends[s])
    /\ IF SendTryCovers(sends[s][i].pc)
       THEN /\ messages' = [messages EXCEPT ![s] = SendCatch(@)]
            /\ UNCHANGED unhandled
       ELSE /\ unhandled' = [unhandled EXCEPT ![s] = @ + 1]
            /\ UNCHANGED messages
    /\ sending' = [sending EXCEPT ![s] = SendingAfter("catch")]
    /\ sends' = [sends EXCEPT ![s] = RemoveAt(@, i)]
    /\ last' = Step(IF sends[s][i].pc = "generateText" THEN "GenThrow" ELSE "LogThrow",
                    s, <<>>)
    /\ UNCHANGED <<store, pcBoot, product, business, loading, showEscalation,
                   unhelpfulCount, fbs, hist, lim>>

\* ---------------------------------------------------------------- handleFeedback
\* the variant "message.type === 'ai' && message.id.startsWith('ai_')"
FeedbackOfferedOnAnswers(message) == message.type = "ai" /\ message.id[1] = "ai"

\* the behaviour of a render that offers the thumbs on every 'ai' message
FeedbackOfferedOnAi(message) == message.type = "ai"

\* The feedback buttons are rendered for: message.type === 'ai' && message.id !== 'welcome'
FeedbackOffered(message) == message.type = "ai" /\ message.id # WelcomeId

\* prev.map(msg => msg.id === messageId ? { ...msg, isHelpful } : msg)
MarkMessage(msgs, messageId, isHelpful) ==
    [k \in 1..Len(msgs) |->
        IF msgs[k].id = messageId
        THEN [msgs[k] EXCEPT !.isHelpful = IF isHelpful THEN "true" ELSE "false"]
        ELSE msgs[k]]

\* const newCount = unhelpfulCount + 1, on the unhelpfulCount of the render
\* the handler was created in
NewCount(count) == count + 1

\* the behaviour of a threshold of one unhelpful call
EscalatesOnFirst(newCount) == newCount >= 1

\* the bug "if (newCount > 20)"
EscalatesAbove(newCount) == newCount > EscalationThreshold

\* if (newCount >= 20)
Escalates(newCount) == newCount >= EscalationThreshold

\* the bug "setShowEscalation(newCount >= 20)"
ShowFollowsCount(show, newCount) == Escalates(newCount)

\* setShowEscalation(true) when the threshold is reached
ShowAfterUnhelpful(show, newCount) == IF Escalates(newCount) THEN TRUE ELSE show

\* the behaviour of a record written without the product identifier
EscalationProductIdEmpty(prod) == ""

\* product?.id || '': the product of the render, which never changes once set
EscalationProductId(prod) == IF prod = Null THEN "" ELSE prod.id

\* { id, productId: product?.id || '', reason, status }
Escalation(pid) ==
    [productId |-> pid, reason |-> "unhelpful_responses", status |-> "pending"]

\* The thumbs of line 402 are on screen for the message with this identifier
HasButtons(msgs, messageId) ==
    \E k \in 1..Len(msgs) : msgs[k].id = messageId /\ FeedbackOffered(msgs[k])

\* An identifier no message of the session carries
UnknownId == <<"unknown", 0>>

\* The identifiers handleFeedback may be called with
FeedbackIds(s) ==
    {messages[s][k].id : k \in 1..Len(messages[s])}
        \cup (IF lim.direct THEN {UnknownId} ELSE {})

\* handleFeedback is called (a thumb is clicked on a rendered message, or, in
\* the direct scenario, with any identifier; the function itself tests
\* nothing): the message is marked and chatLogs.list starts
SubmitFeedback(s, messageId, isHelpful) ==
    /\ UNCHANGED authVars
    /\ s \in lim.sessions
    /\ ~loading[s]
    /\ product[s] # Null
    /\ lim.direct \/ HasButtons(messages[s], messageId)
    /\ Turn(s)
    /\ lim.patient => sends[s] = <<>>
    /\ Len(fbs[s]) < lim.overlap
    /\ isHelpful \in lim.thumbs
    /\ hist[s].fbTrue + hist[s].fbFalse < lim.feedback
    /\ messages' = [messages EXCEPT ![s] = MarkMessage(@, messageId, isHelpful)]
    /\ fbs' = [fbs EXCEPT ![s] = Append(@,
          [pc |-> "chatLogs.list", messageId |-> messageId, isHelpful |-> isHelpful,
           count |-> unhelpfulCount[s], pid |-> product[s].id, target |-> 0,
           offered |-> HasButtons(messages[s], messageId)])]
    /\ hist' = [hist EXCEPT ![s].fbTrue = IF isHelpful THEN @ + 1 ELSE @,
                            ![s].fbFalse = IF isHelpful THEN @ ELSE @ + 1,
                            ![s].lastFb = IF isHelpful THEN "true" ELSE "false"]
    /\ last' = Step("SubmitFeedback", s, <<>>)
    /\ UNCHANGED <<store, pcBoot, product, business, loading, sending,
                   showEscalation, unhelpfulCount, sends, unhandled, lim>>

\* The code of handleFeedback after the chat log update: the counter, the
\* threshold test, and either the toast (the call ends) or escalations.create
AfterUpdate(s, i) ==
    LET call == fbs[s][i]
        newCount == NewCount(call.count)
    IN  IF call.isHelpful
        THEN /\ fbs' = [fbs EXCEPT ![s] = RemoveAt(@, i)]
             /\ hist' = [hist EXCEPT ![s].acks = @ + 1]
             /\ UNCHANGED <<unhelpfulCount, showEscalation>>
        ELSE /\ unhelpfulCount' = [unhelpfulCount EXCEPT ![s] = newCount]
             /\ showEscalation' = [showEscalation EXCEPT ![s] =
                   ShowAfterUnhelpful(@, newCount)]
             /\ fbs' = [fbs EXCEPT ![s] =
                   IF Escalates(newCount)
                   THEN [@ EXCEPT ![i].pc = "escalations.create"]
                   ELSE RemoveAt(@, i)]
             /\ hist' = [hist EXCEPT ![s].acks =
                   IF Escalates(newCount) THEN @ ELSE @ + 1]

\* chatLogs.list resolves: the update of the newest row starts, or with no row
\* the handler goes on without an await
FbListReturn(s, i) ==
    /\ UNCHANGED authVars
    /\ i \in 1..Len(fbs[s])
    /\ fbs[s][i].pc = "chatLogs.list"
    /\ LET logs == ListRecent(chatLogs, fbs[s][i].pid) IN
         IF Len(logs) > 0
         THEN /\ fbs' = [fbs EXCEPT ![s][i].pc = "chatLogs.update",
                                    ![s][i].target = logs[1].id]
              /\ UNCHANGED <<unhelpfulCount, showEscalation, hist>>
         ELSE AfterUpdate(s, i)
    /\ last' = Step("FbListReturn", s, <<>>)
    /\ UNCHANGED <<store, pcBoot, product, business, messages, loading, sending,
                   sends, unhandled, lim>>

\* chatLogs.update resolves: the row carries the flag; the handler goes on
FbUpdateReturn(s, i) ==
    /\ UNCHANGED authVars
    /\ i \in 1..Len(fbs[s])
    /\ fbs[s][i].pc = "chatLogs.update"
    /\ chatLogs' = UpdateHelpful(chatLogs, fbs[s][i].target,
                                 StoreFlag(fbs[s][i].isHelpful))
    /\ AfterUpdate(s, i)
    /\ last' = Step("FbUpdateReturn", s, <<>>)
    /\ UNCHANGED <<dbProducts, dbBusinesses, escalations, pcBoot, product,
                   business, messages, loading, sending, sends, unhandled, lim>>

\* the behaviour of a create that is skipped when the product has a record
CreateEscalationOnce(table, pid) ==
    IF \E k \in 1..Len(table) : table[k].productId = pid
    THEN table
    ELSE Append(table, Escalation(pid))

\* blink.db.escalations.create({ ... }): a record is added, whatever the
\* table holds
CreateEscalation(table, pid) == Append(table, Escalation(pid))

\* escalations.create resolves: the record is stored; toast
FbCreateReturn(s, i) ==
    /\ UNCHANGED authVars
    /\ i \in 1..Len(fbs[s])
    /\ fbs[s][i].pc = "escalations.create"
    /\ escalations' = CreateEscalation(escalations, EscalationProductId(product[s]))
    /\ fbs' = [fbs EXCEPT ![s] = RemoveAt(@, i)]
    /\ hist' = [hist EXCEPT ![s].escCreated = @ + 1, ![s].acks = @ + 1]
    /\ last' = Step("FbCreateReturn", s, <<>>)
    /\ UNCHANGED <<dbProducts, dbBusinesses, chatLogs, pcBoot, product, business,
                   messages, loading, sending, showEscalation, unhelpfulCount,
                   sends, unhandled, lim>>

\* any of the three Record Store calls rejects: catch (console.error)
FbThrow(s, i) ==
    /\ UNCHANGED authVars
    /\ lim.failures
    /\ i \in 1..Len(fbs[s])
    /\ fbs' = [fbs EXCEPT ![s] = RemoveAt(@, i)]
    /\ hist' = [hist EXCEPT ![s].fbFailed = TRUE]
    /\ last' = Step("FbThrow", s, <<>>)
    /\ UNCHANGED <<store, pcBoot, product, business, messages, loading, sending,
                   showEscalation, unhelpfulCount, sends, unhandled, lim>>

\* ---------------------------------------------------------------- AuthProvider
\* interface User { id, name, email }
User(n) == [id |-> ToString(n), name |-> "name", email |-> "email"]

Users == {User(n) : n \in 1..NumUsers}

\* JSON.stringify(userData): the text of the object, token by token
Stringify(u) == <<"{", u.id, u.name, u.email, "}">>

\* JSON.parse accepts the text
WellFormed(text) == Len(text) = 5 /\ text[1] = "{" /\ text[5] = "}"

\* JSON.parse(storedUser), of a text it accepts
Parse(text) == [id |-> text[2], name |-> text[3], email |-> text[4]]

\* A stored text JSON.parse throws on
Truncated == <<"{", "1">>

\* The entries 'hmih_user' the browser can start with: none, the text signIn
\* stored for a user, a damaged text
StoredItems == {NoItem} \cup {Item(Stringify(u)) : u \in Users} \cup {Item(Truncated)}

\* Auth: the provider alone, over each stored entry; the chat is not opened
InitAuth ==
    /\ InitChat
    /\ InitStore({ {TheProduct("gpt4o")} }, { {TheBusiness} }, 0)
    /\ \E item \in StoredItems :
          /\ InitAuthProvider(item)
          /\ lim = [Scenario({}, 0, 0, {}, 0, {}, {}, 0)
                       EXCEPT !.auth = TRUE, !.stored = item]

\* the behaviour of a catch that only logs the parse error
AfterParseErrorKeeps(item) == item

\* catch: localStorage.removeItem('hmih_user')
AfterParseError(item) == NoItem

\* isAuthenticated: !!user
IsAuthenticated(u) == u # Null

\* useEffect(checkExistingSession, []): the stored user, if any, is parsed and
\* set; a text that does not parse is removed; finally isLoading is cleared
Hydrate ==
    /\ lim.auth
    /\ isLoading
    /\ IF localStorage.present /\ Truthy(localStorage.text)
       THEN IF WellFormed(localStorage.text)
            THEN /\ user' = Parse(localStorage.text)
                 /\ UNCHANGED localStorage
            ELSE /\ localStorage' = AfterParseError(localStorage)
                 /\ UNCHANGED user
       ELSE UNCHANGED <<user, localStorage>>
    /\ isLoading' = FALSE
    /\ last' = Step("Hydrate", 0, <<>>)
    /\ UNCHANGED <<chatVars, lim>>

\* signIn(userData): setUser, localStorage.setItem
SignIn(userData) ==
    /\ lim.auth
    /\ ~isLoading
    /\ user' = userData
    /\ localStorage' = Item(Stringify(userData))
    /\ last' = Step("SignIn", 0, Stringify(userData))
    /\ UNCHANGED <<chatVars, lim, isLoading>>

\* signOut(): setUser(null), localStorage.removeItem
SignOut ==
    /\ lim.auth
    /\ ~isLoading
    /\ user' = Null
    /\ localStorage' = NoItem
    /\ last' = Step("SignOut", 0, <<>>)
    /\ UNCHANGED <<chatVars, lim, isLoading>>

\* ---------------------------------------------------------------- specification
Next ==
    \E s \in Sessions :
        \/ Mount(s)
        \/ ProductsReturn(s)
        \/ BusinessesReturn(s)
        \/ HistoryReturn(s)
        \/ BootThrow(s)
        \/ \E inputMessage \in lim.inputs : SendMessage(s, inputMessage)
        \/ \E i \in 1..Len(sends[s]), text \in lim.texts : GenReturn(s, i, text)
        \/ \E i \in 1..Len(sends[s]) : LogReturn(s, i)
        \/ \E i \in 1..Len(sends[s]) : SendThrow(s, i)
        \/ \E messageId \in FeedbackIds(s), isHelpful \in BOOLEAN :
              SubmitFeedback(s, messageId, isHelpful)
        \/ \E i \in 1..Len(fbs[s]) : FbListReturn(s, i)
        \/ \E i \in 1..Len(fbs[s]) : FbUpdateReturn(s, i)
        \/ \E i \in 1..Len(fbs[s]) : FbCreateReturn(s, i)
        \/ \E i \in 1..Len(fbs[s]) : FbThrow(s, i)

Spec == Init /\ [][Next]_vars

\* Two tabs open on one product, next to the single sessions of the bootstrap
\* scenario (where the Record Store and the generator may reject)
SpecTabs == (InitBoot \/ InitTabs) /\ [][Next]_vars

\* An awaited call of sendMessage settles: generateText resolves,
\* chatLogs.create resolves, or either of them rejects
Settle(s) ==
    \E i \in 1..Len(sends[s]) :
        \/ \E text \in lim.texts : GenReturn(s, i, text)
        \/ LogReturn(s, i)
        \/ SendThrow(s, i)

\* Sessions whose awaited generator and Record Store calls of sendMessage
\* always settle, one way or the other
SpecLive ==
    /\ InitBoot \/ InitTabs \/ InitQuestions
    /\ [][Next]_vars
    /\ \A s \in Sessions : WF_vars(Settle(s))

\* Overlapping feedback calls, next to the single sessions of the bootstrap
\* and escalation scenarios
SpecOverlap == (InitBoot \/ InitEsc \/ InitOverlap) /\ [][Next]_vars

\* The steps of the chat page and of the AuthProvider
NextApp ==
    \/ Next
    \/ Hydrate
    \/ \E userData \in Users : SignIn(userData)
    \/ SignOut

\* The AuthProvider over each stored entry, next to chat sessions
SpecApp == (InitAuth \/ InitBoot \/ InitTabs) /\ [][NextApp]_vars

\* The sessions of Spec, and the session whose handleFeedback is called directly
SpecDirect == (Init \/ InitDirect) /\ [][Next]_vars

TypeOK ==
    /\ \A s \in Sessions :
          /\ pcBoot[s] \in {"unmounted", "products", "businesses", "chatLogs", "done"}
          /\ loading[s] \in BOOLEAN /\ sending[s] \in BOOLEAN
          /\ showEscalation[s] \in BOOLEAN
          /\ unhelpfulCount[s] \in Nat
          /\ unhandled[s] \in Nat

\* ---------------------------------------------------------------- properties
LastMessage(s) == messages[s][Len(messages[s])]

IsDegraded(message) == message.id[1] = "error"

\* C1: a session writes at most one Escalation record, whatever feedback
\* calls it makes: unhelpful feedback after the threshold writes no further one.
C1_AtMostOneEscalation ==
    \A s \in Sessions : hist[s].escCreated <= 1

\* C2: with no prior unhelpful history and every feedback call completed
\* before the next, escalation-visible is false after each of the first 19
\* unhelpful calls, and after the 20th it is true and the session has created
\* exactly one Escalation record (the Record Store calls of the feedback
\* having succeeded).
C2_TwentiethCallEscalates ==
    \A s \in Sessions :
        (lim.history = 0 /\ lim.overlap = 1 /\ fbs[s] = <<>> /\ ~hist[s].fbFailed) =>
            /\ hist[s].fbFalse < 20 =>
                  ~showEscalation[s] /\ hist[s].escCreated = 0
            /\ hist[s].fbFalse = 20 =>
                  showEscalation[s] /\ hist[s].escCreated = 1

C2_Witness ==
    /\ lim.history = 0 /\ fbs[1] = <<>> /\ ~hist[1].fbFailed
    /\ hist[1].fbFalse = 20
    /\ showEscalation[1]
    /\ Len(escalations) = 1

\* C3: the step that completes bootstrap for an existing product (the history
\* query has returned) leaves escalation-visible true when the store holds 20
\* or more exchanges of the product marked unhelpful, false when fewer.
C3_BootEscalation ==
    [][\A s \in Sessions :
          (last'.op = "HistoryReturn" /\ last'.s = s) =>
              /\ pcBoot'[s] = "done" /\ ~loading'[s] /\ product'[s] # Null
              /\ showEscalation'[s] =
                    (Cardinality({k \in 1..Len(chatLogs) :
                        chatLogs[k].productId = product[s].id
                        /\ chatLogs[k].isHelpful = "0"}) >= 20)]_vars

C3_Witness ==
    /\ last.op = "HistoryReturn"
    /\ showEscalation[last.s]
    /\ lim.history = 20

\* C4: once escalation-visible is true in a session it is true in every
\* later state of the session.
C4_EscalationMonotonic ==
    [][\A s \in Sessions : showEscalation[s] => showEscalation'[s]]_vars

C4_Witness ==
    /\ showEscalation[1]
    /\ hist[1].sends >= 1 /\ ~sending[1]
    /\ hist[1].fbTrue >= 1 /\ fbs[1] = <<>>
    /\ \E k \in 1..Len(messages[1]) : messages[1][k].isHelpful = "true"

\* The text of message k of a session, without its feedback flag
Shown(s, k) == [type |-> messages[s][k].type, content |-> messages[s][k].content]

Blank(str) == \A k \in 1..Len(str) : str[k] = Ws

\* content is str without its leading and trailing white space
IsTrimOf(content, str) ==
    \E i, j \in 0..Len(str) :
        /\ i + j <= Len(str)
        /\ content = SubSeq(str, i + 1, Len(str) - j)
        /\ \A k \in 1..i : str[k] = Ws
        /\ \A k \in (Len(str) - j + 1)..Len(str) : str[k] = Ws
        /\ content # <<>> => content[1] # Ws /\ content[Len(content)] # Ws

Awaiting(calls, site) == Cardinality({i \in 1..Len(calls) : calls[i].pc = site})

\* C5: a sendMessage call made while sending is true changes nothing (no
\* message, no generator call, no ChatExchange), and at most one generator
\* call of a session awaits its result.
C5_OneExchangeInFlight ==
    [][\A s \in Sessions :
          /\ Awaiting(sends'[s], "generateText") <= 1
          /\ Len(sends'[s]) <= 1
          /\ \A inputMessage \in Inputs :
                (sending[s] /\ SendMessage(s, inputMessage)) =>
                    UNCHANGED <<messages, sends, sending, chatLogs, escalations>>]_vars

C5_Witness ==
    /\ last.op = "SendIgnored"
    /\ ~Blank(last.input)
    /\ sending[last.s]
    /\ Awaiting(sends[last.s], "generateText") = 1

\* C6: sendMessage with empty or whitespace-only input is a no-op: messages,
\* the sending flag, the persisted exchanges and the generator calls are
\* left untouched.
C6_BlankInputNoOp ==
    [][\A s \in Sessions, inputMessage \in Inputs :
          (Blank(inputMessage) /\ SendMessage(s, inputMessage)) =>
              UNCHANGED <<messages, sends, sending, chatLogs>>]_vars

C6_Witness ==
    /\ last.op = "SendIgnored"
    /\ last.input = <<Ws>>
    /\ product[last.s] # Null /\ ~sending[last.s]

\* C7: the sendMessage whose generator call and log write both succeed has
\* appended exactly two messages, the user message with the trimmed question
\* and then the assistant message with the generated text, and creates
\* exactly one ChatExchange with that question and that response.
C7_SuccessfulExchange ==
    [][\A s \in Sessions :
          (last'.op = "LogReturn" /\ last'.s = s) =>
              LET call == sends[s][1]
                  n == call.len0
              IN  /\ Len(messages'[s]) = n + 2
                  /\ SubSeq(messages'[s], 1, n) = SubSeq(messages[s], 1, n)
                  /\ messages'[s][n + 1].type = "user"
                  /\ IsTrimOf(messages'[s][n + 1].content, call.input)
                  /\ messages'[s][n + 2].type = "ai"
                  /\ messages'[s][n + 2].content = call.text
                  /\ ~IsDegraded(messages'[s][n + 2])
                  /\ Len(chatLogs') = Len(chatLogs) + 1
                  /\ SubSeq(chatLogs', 1, Len(chatLogs)) = chatLogs
                  /\ chatLogs'[Len(chatLogs')].question = messages'[s][n + 1].content
                  /\ chatLogs'[Len(chatLogs')].response = messages'[s][n + 2].content
                  /\ ~sending'[s]]_vars

C7_Witness ==
    /\ last.op = "LogReturn"
    /\ Len(messages[last.s]) = 3
    /\ Shown(last.s, 2) = [type |-> "user", content |-> <<"b">>]
    /\ Shown(last.s, 3) = [type |-> "ai", content |-> <<"r">>]
    /\ chatLogs[Len(chatLogs)].question = <<"b">>
    /\ chatLogs[Len(chatLogs)].response = <<"r">>

\* C8: when the generator call throws, sendMessage has appended exactly the
\* user message and one degraded (apology) assistant message, creates no
\* ChatExchange, and the failure does not leave the handler.
C8_GeneratorFailure ==
    [][\A s \in Sessions :
          (last'.op = "GenThrow" /\ last'.s = s) =>
              LET n == sends[s][1].len0
              IN  /\ Len(messages'[s]) = n + 2
                  /\ messages'[s][n + 1] = sends[s][1].userMessage
                  /\ messages'[s][n + 2].type = "ai"
                  /\ messages'[s][n + 2].content = Apology
                  /\ chatLogs' = chatLogs
                  /\ unhandled'[s] = unhandled[s]
                  /\ ~sending'[s]]_vars

C8_Witness ==
    /\ last.op = "GenThrow"
    /\ Len(messages[last.s]) = 3
    /\ LastMessage(last.s).content = Apology
    /\ Len(chatLogs) = 1

\* C9: when the generator succeeds and the log write fails, the exchange ends
\* with exactly the user message and the generated assistant message
\* appended, and no apology message is added.
C9_LogFailureInvisible ==
    [][\A s \in Sessions :
          (last'.op = "LogThrow" /\ last'.s = s) =>
              LET n == sends[s][1].len0
              IN  /\ Len(messages'[s]) = n + 2
                  /\ messages'[s][n + 2].content = sends[s][1].text
                  /\ \A k \in 1..Len(messages'[s]) : ~IsDegraded(messages'[s][k])]_vars

\* C10 as claimed: a degraded message is offered no feedback control and is
\* never marked by feedback.
C10_DegradedNotEligible ==
    \A s \in Sessions : \A k \in 1..Len(messages[s]) :
        IsDegraded(messages[s][k]) =>
            /\ ~FeedbackOffered(messages[s][k])
            /\ messages[s][k].isHelpful = "unset"

\* C10 as amended: a degraded message is never persisted as a ChatExchange
\* (the step that appends it leaves the chat logs unchanged), but it is
\* feedback-eligible: the feedback control is offered for it, and a
\* submitFeedback on its identifier is accepted and marks it.
C10_DegradedEligibleNotPersisted ==
    [][\A s \in Sessions :
          /\ (Len(messages'[s]) = Len(messages[s]) + 1
              /\ IsDegraded(messages'[s][Len(messages'[s])])) =>
                 /\ chatLogs' = chatLogs
                 /\ FeedbackOffered(messages'[s][Len(messages'[s])])
          /\ \A k \in 1..Len(messages[s]), isHelpful \in BOOLEAN :
                (IsDegraded(messages[s][k])
                 /\ SubmitFeedback(s, messages[s][k].id, isHelpful)) =>
                    /\ messages'[s][k].isHelpful = IF isHelpful THEN "true" ELSE "false"
                    /\ Len(fbs'[s]) = Len(fbs[s]) + 1]_vars

\* feedback on a degraded message has changed the counter and an exchange
C10_Witness ==
    \E k \in 1..Len(messages[1]) :
        /\ IsDegraded(messages[1][k])
        /\ messages[1][k].isHelpful = "false"
        /\ unhelpfulCount[1] = 1
        /\ hist[1].fbFalse = 1

\* A step of session s inside handleFeedback, after the call was made
FeedbackStep(s) ==
    /\ last'.s = s
    /\ last'.op \in {"FbListReturn", "FbUpdateReturn", "FbCreateReturn", "FbThrow"}

Marked(message) == message.isHelpful # "unset"

FlagOfMark(message) == IF message.isHelpful = "true" THEN "1" ELSE "0"

\* The chat log rows written for message, by the sendMessage call that showed it
LogsOf(s, message) ==
    {l \in 1..Len(chatLogs) : <<message.id, chatLogs[l].id>> \in hist[s].logOf}

\* C12: feedback given on the latest assistant message of a session, before
\* another question is sent, sets the helpfulness flag of the chat log that
\* was persisted for that very message, and of no other chat log written by
\* a session: once the feedback call and the log write have both completed
\* without a rejected request, the row of the message carries the thumb and
\* every other row written by a session is unflagged.
C12_FeedbackOnOwnExchange ==
    \A s \in Sessions :
        ( /\ messages[s] # <<>>
          /\ Marked(LastMessage(s))
          /\ hist[s].fbTrue + hist[s].fbFalse = 1
          /\ fbs[s] = <<>> /\ ~hist[s].fbFailed
          /\ LogsOf(s, LastMessage(s)) # {} )
        => \A l \in 1..Len(chatLogs) :
              /\ l \in LogsOf(s, LastMessage(s))
                    => chatLogs[l].isHelpful = FlagOfMark(LastMessage(s))
              /\ ( /\ l \notin LogsOf(s, LastMessage(s))
                   /\ chatLogs[l].sessionId \in Sessions )
                    => chatLogs[l].isHelpful = "unset"

\* C13: every handleFeedback call surfaces an acknowledgment, also when the
\* chatLogs.list or chatLogs.update request of the call is rejected: once no
\* call is in flight, the session has shown one acknowledgment per call made.
C13_AlwaysAcknowledged ==
    \A s \in Sessions :
        fbs[s] = <<>> => hist[s].acks = hist[s].fbTrue + hist[s].fbFalse

\* C14: every unhelpful handleFeedback call on a feedback-eligible message
\* adds exactly one to the unhelpful counter of the session, calls with a
\* rejected Record Store request included: with the calls made one after
\* another, the counter equals the number of unhelpful calls once none is in
\* flight.
C14_CounterCountsEveryCall ==
    \A s \in Sessions :
        (lim.overlap = 1 /\ ~lim.direct /\ fbs[s] = <<>>)
            => unhelpfulCount[s] = hist[s].fbFalse

\* C15: the unhelpful counter of a session starts at bootstrap from the
\* number h of persisted unhelpful chat logs of the product, so a session
\* with h < 20 is escalation-visible as soon as h plus its own completed
\* unhelpful feedback calls reaches 20.
C15_CounterSeededFromHistory ==
    \A s \in Sessions :
        (hist[s].histAtBoot >= 0 /\ hist[s].histAtBoot < BootThreshold)
        => /\ hist[s].fbFalse = 0 => unhelpfulCount[s] = hist[s].histAtBoot
           /\ ( /\ fbs[s] = <<>> /\ ~hist[s].fbFailed
                /\ hist[s].histAtBoot + hist[s].fbFalse >= EscalationThreshold )
              => showEscalation[s]

RECURSIVE EscalationsCreated(_)
\* The number of escalations.create calls of the sessions 1..n that resolved
EscalationsCreated(n) ==
    IF n = 0 THEN 0 ELSE hist[n].escCreated + EscalationsCreated(n - 1)

\* C16: nothing across sessions prevents the duplicate escalation write: the
\* table holds one record per escalations.create that resolved, whichever
\* session made it, and with two tabs on one product each tab that has
\* completed 20 unhelpful calls has written its own record, so two records of
\* the product exist once both tabs have crossed the threshold.
C16_NoCrossSessionGuard ==
    /\ Len(escalations) = EscalationsCreated(NumSessions)
    /\ \A s \in Sessions :
          ( /\ lim.serial /\ fbs[s] = <<>>
            /\ hist[s].fbFalse >= EscalationThreshold )
          => /\ showEscalation[s]
             /\ hist[s].escCreated >= 1
             /\ Cardinality({k \in 1..Len(escalations) :
                    escalations[k].productId = ProductId})
                  >= Cardinality({t \in Sessions :
                        hist[t].fbFalse >= EscalationThreshold /\ fbs[t] = <<>>})

C16_Witness ==
    /\ lim.serial
    /\ \A s \in Tabs :
          /\ showEscalation[s] /\ unhelpfulCount[s] = EscalationThreshold
          /\ hist[s].escCreated = 1
    /\ Len(escalations) = 2
    /\ \A k \in 1..Len(escalations) : escalations[k].productId = ProductId

\* C17: a successful bootstrap leaves exactly one message, the welcome
\* message naming the product; from then on the welcome message stays the
\* first message, no feedback control is offered for it, it is never marked,
\* and no chat log is written for it: bootstrap writes none, and every chat
\* log a session writes belongs to an assistant message other than the
\* welcome message.
C17_WelcomeOnly ==
    [][\A s \in Sessions :
          /\ (last'.op = "HistoryReturn" /\ last'.s = s)
                => /\ messages'[s] = <<WelcomeMessage(product'[s])>>
                   /\ chatLogs' = chatLogs
          /\ \A k \in 1..Len(messages'[s]) :
                messages'[s][k].id = WelcomeId
                   => /\ k = 1
                      /\ ~FeedbackOffered(messages'[s][k])
                      /\ ~HasButtons(messages'[s], WelcomeId)
                      /\ messages'[s][k] = WelcomeMessage(product'[s])
          /\ \A l \in 1..Len(chatLogs') :
                chatLogs'[l].sessionId = s
                   => \E k \in 2..Len(messages'[s]) :
                         /\ messages'[s][k].id # WelcomeId
                         /\ <<messages'[s][k].id, chatLogs'[l].id>> \in hist'[s].logOf
                         /\ messages'[s][k].content = chatLogs'[l].response]_vars

C17_Witness ==
    /\ pcBoot[1] = "done" /\ Len(messages[1]) >= 3
    /\ messages[1][1] = WelcomeMessage(product[1])
    /\ hist[1].logOf # {}
    /\ hist[1].fbTrue + hist[1].fbFalse >= 1 /\ fbs[1] = <<>>

\* Bootstrap of session s has ended and no product has the identifier
NotFound(s) == pcBoot[s] = "done" /\ ListById(dbProducts, ProductId) = {}

\* C18: when bootstrap finds no product for the identifier, the session ends
\* in the not-found state (product unset, no message, loading false), and
\* every later sendMessage is a no-op: nothing changes, the generator and
\* the Record Store are not called.
C18_NotFoundState ==
    [][\A s \in Sessions :
          /\ ( /\ last'.op = "ProductsReturn" /\ last'.s = s
               /\ ListById(dbProducts, ProductId) = {} )
                => /\ NotFound(s)'
                   /\ product'[s] = Null /\ messages'[s] = <<>> /\ ~loading'[s]
          /\ NotFound(s)'
                => /\ product'[s] = Null /\ messages'[s] = <<>> /\ ~loading'[s]
                   /\ sends'[s] = <<>> /\ fbs'[s] = <<>> /\ ~sending'[s]
                   /\ hist'[s].sends = 0
                   /\ \A l \in 1..Len(chatLogs') : chatLogs'[l].sessionId # s
          /\ ( /\ NotFound(s) /\ last'.s = s
               /\ last'.op \notin {"Mount"} )
                => /\ last'.op = "SendIgnored"
                   /\ UNCHANGED <<store, pcBoot, product, business, messages,
                                  loading, sending, showEscalation,
                                  unhelpfulCount, sends, fbs, unhandled, hist>>]_vars

C18_Witness ==
    /\ NotFound(1) /\ product[1] = Null /\ ~loading[1]
    /\ last.op = "SendIgnored" /\ last.s = 1 /\ Truthy(Trim(last.input))

\* C19: an empty text from the generator is treated as a generation failure:
\* the apology message is appended in its place, so no assistant message
\* with empty content is ever shown and no chat log with an empty response is
\* ever written.
C19_EmptyResultIsFailure ==
    \A s \in Sessions :
        /\ \A k \in 1..Len(messages[s]) :
              messages[s][k].type = "ai" => messages[s][k].content # <<>>
        /\ \A l \in 1..Len(chatLogs) :
              chatLogs[l].sessionId = s => chatLogs[l].response # <<>>

\* C20: a sendMessage that has set sending leads, once its generator call
\* and its log write have settled (resolved or rejected), to sending being
\* false again with no call of sendMessage left in flight, where a non-blank
\* input is accepted again.
C20_SendingEventuallyReset ==
    \A s \in Sessions :
        sending[s] ~> ( /\ ~sending[s] /\ sends[s] = <<>>
                        /\ SendAccepts(<<"a">>, product[s], sending[s]) )

C20_Witness ==
    /\ ~sending[1] /\ sends[1] = <<>>
    /\ hist[1].sends = 2
    /\ last.s = 1 /\ last.op \in {"GenThrow", "LogThrow", "LogReturn"}

\* The positions of session s at which the message has this identifier
PositionsOf(msgs, id) == {k \in 1..Len(msgs) : msgs[k].id = id}

\* C21: within one exchange the user message is appended before the
\* generator is invoked, the assistant message after the generator returns,
\* and the log write starts only after the assistant message is appended: a
\* call awaiting the generator has its user message displayed, a call
\* awaiting chatLogs.create has its assistant message displayed after the
\* user message, the step that stores a chat log starts from a state that
\* displays the answer, and every chat log of a session has its displayed
\* assistant message.
C21_ExchangeOrder ==
    [][\A s \in Sessions :
          /\ \A i \in 1..Len(sends'[s]) :
                LET call == sends'[s][i] IN
                  /\ \E k \in 1..Len(messages'[s]) :
                        messages'[s][k] = call.userMessage
                  /\ call.pc = "chatLogs.create"
                        => \E k \in PositionsOf(messages'[s], call.aiId) :
                              /\ messages'[s][k].type = "ai"
                              /\ messages'[s][k].content = call.text
                              /\ \A j \in PositionsOf(messages'[s], call.userMessage.id) :
                                    j < k
          /\ (last'.op = "SendMessage" /\ last'.s = s)
                => /\ messages'[s][Len(messages'[s])].type = "user"
                   /\ Len(messages'[s]) = Len(messages[s]) + 1
                   /\ sends'[s][Len(sends'[s])].pc = "generateText"
          /\ (last'.op = "LogReturn" /\ last'.s = s)
                => \E i \in 1..Len(sends[s]) :
                      /\ sends[s][i].pc = "chatLogs.create"
                      /\ PositionsOf(messages[s], sends[s][i].aiId) # {}
                      /\ Len(chatLogs') = Len(chatLogs) + 1
          /\ \A l \in 1..Len(chatLogs') :
                chatLogs'[l].sessionId = s
                   => \E k \in 1..Len(messages'[s]) :
                         /\ messages'[s][k].type = "ai"
                         /\ l \in {n \in 1..Len(chatLogs') :
                               <<messages'[s][k].id, chatLogs'[n].id>> \in hist'[s].logOf}]_vars

\* an assistant message is displayed and its chat log is not written yet
C21_Witness ==
    /\ Len(sends[1]) = 1 /\ sends[1][1].pc = "chatLogs.create"
    /\ LastMessage(1).id = sends[1][1].aiId /\ LastMessage(1).type = "ai"
    /\ LogsOf(1, LastMessage(1)) = {}
    /\ \A l \in 1..Len(chatLogs) : chatLogs[l].sessionId # 1

\* Every call of session s has settled and none was rejected; the thumbs
\* were clicked on the latest assistant message after its chat log was written
FeedbackSettled(s) ==
    /\ fbs[s] = <<>> /\ sends[s] = <<>>
    /\ ~hist[s].fbFailed /\ lim.patient
    /\ hist[s].lastFb # "unset"
    /\ messages[s] # <<>> /\ Marked(LastMessage(s))
    /\ LogsOf(s, LastMessage(s)) # {}

\* C22: feedback is last-write-wins locally and in the store: after a
\* sequence of handleFeedback calls on the latest assistant message has
\* settled, calls started while an earlier one awaited the Record Store
\* included, the flag of the message and the flag of the product's most
\* recent chat log both equal the thumb of the last call.
C22_LastWriteWins ==
    \A s \in Sessions :
        FeedbackSettled(s)
        => /\ LastMessage(s).isHelpful = hist[s].lastFb
           /\ LET recent == ListRecent(chatLogs, product[s].id) IN
                /\ recent # <<>>
                /\ recent[1].isHelpful = StoreFlag(hist[s].lastFb = "true")

\* The steps of sendMessage, whatever their outcome
SendOps == {"SendMessage", "SendIgnored", "GenReturn", "LogReturn", "GenThrow", "LogThrow"}

\* C23: after bootstrap the escalation banner flag turns from false to true
\* only in a step of an unhelpful handleFeedback call at which the
\* unhelpful counter reaches at least 20; the steps of sendMessage and of a
\* helpful handleFeedback call never set the flag and never write an
\* escalation record.
C23_EscalationOnlyByUnhelpful ==
    [][\A s \in Sessions :
          /\ (pcBoot[s] = "done" /\ ~showEscalation[s] /\ showEscalation'[s])
                => /\ last'.s = s /\ FeedbackStep(s)
                   /\ unhelpfulCount'[s] >= EscalationThreshold
                   /\ unhelpfulCount'[s] = unhelpfulCount[s] + 1
                   /\ \E i \in 1..Len(fbs[s]) : ~fbs[s][i].isHelpful
          /\ (last'.s = s /\ last'.op \in SendOps)
                => /\ showEscalation'[s] = showEscalation[s]
                   /\ escalations' = escalations
                   /\ unhelpfulCount'[s] = unhelpfulCount[s]
          /\ ( /\ last'.s = s
               /\ last'.op = "SubmitFeedback" \/ FeedbackStep(s)
               /\ \A i \in 1..Len(fbs'[s]) : fbs'[s][i].isHelpful
               /\ \A i \in 1..Len(fbs[s]) : fbs[s][i].isHelpful )
                => /\ showEscalation'[s] = showEscalation[s]
                   /\ escalations' = escalations
                   /\ unhelpfulCount'[s] = unhelpfulCount[s]
          /\ (last'.s = s /\ Len(escalations') > Len(escalations))
                => /\ last'.op = "FbCreateReturn"
                   /\ \E i \in 1..Len(fbs[s]) :
                         /\ ~fbs[s][i].isHelpful
                         /\ fbs[s][i].pc = "escalations.create"]_vars

\* the flag has just been set by the twentieth unhelpful call, whose
\* escalations.create is still awaited
C23_Witness ==
    /\ last.s = 1 /\ last.op \in {"FbListReturn", "FbUpdateReturn"}
    /\ showEscalation[1] /\ unhelpfulCount[1] = EscalationThreshold
    /\ hist[1].histAtBoot = 0 /\ hist[1].escCreated = 0
    /\ Len(fbs[1]) = 1 /\ fbs[1][1].pc = "escalations.create"

\* C24: every escalation record a session writes has reason
\* 'unhelpful_responses', status 'pending' and the identifier of the
\* session's product, never an empty or foreign product identifier.
C24_EscalationRecord ==
    [][\A s \in Sessions :
          (last'.s = s /\ last'.op = "FbCreateReturn")
          => /\ Len(escalations') = Len(escalations) + 1
             /\ SubSeq(escalations', 1, Len(escalations)) = escalations
             /\ LET record == escalations'[Len(escalations')] IN
                  /\ record.reason = "unhelpful_responses"
                  /\ record.status = "pending"
                  /\ product[s] # Null
                  /\ record.productId = product[s].id
                  /\ record.productId = ProductId]_vars

C24_Witness ==
    /\ last.op = "FbCreateReturn" /\ last.s = 1
    /\ escalations # <<>>
    /\ escalations[Len(escalations)] =
          [productId |-> product[1].id, reason |-> "unhelpful_responses",
           status |-> "pending"]

\* A chat log row without its helpfulness flag
Frame(row) ==
    [id |-> row.id, productId |-> row.productId, question |-> row.question,
     response |-> row.response, sessionId |-> row.sessionId]

\* C25: every chat log carries the identifiers of the product and of the
\* session that created it, and after creation only its helpfulness flag
\* changes: rows are never removed or reordered (their order is their
\* timestamp), and every step, those of handleFeedback included, leaves
\* identifier, product, session, question and response of every row as they
\* were.
C25_OnlyFlagMutated ==
    [][/\ Len(chatLogs') >= Len(chatLogs)
       /\ \A l \in 1..Len(chatLogs) : Frame(chatLogs'[l]) = Frame(chatLogs[l])
       /\ \A l \in (Len(chatLogs) + 1)..Len(chatLogs') :
             /\ last'.op = "LogReturn"
             /\ chatLogs'[l].sessionId = last'.s
             /\ chatLogs'[l].productId = product[last'.s].id
             /\ chatLogs'[l].isHelpful = "unset"
       /\ \A s \in Sessions :
             (last'.s = s /\ (last'.op = "SubmitFeedback" \/ FeedbackStep(s)))
                => Len(chatLogs') = Len(chatLogs)]_vars

\* a feedback call has just flagged a chat log written by the session
C25_Witness ==
    /\ last.op = "FbUpdateReturn" /\ last.s = 1
    /\ \E l \in 1..Len(chatLogs) :
          /\ chatLogs[l].sessionId = 1 /\ chatLogs[l].productId = product[1].id
          /\ chatLogs[l].isHelpful \in {"0", "1"}
          /\ chatLogs[l].response # <<>>

\* The business of the product of session s is not in the store
BusinessMissing(s) ==
    product[s] # Null /\ ListById(dbBusinesses, product[s].businessId) = {}

\* C26: when the product exists and its business record does not, bootstrap
\* still completes as a usable chat: the business stays unset, the history
\* query is made and the escalation check done against it, the welcome
\* message is emitted with loading cleared, and questions are accepted.
C26_MissingBusinessTolerated ==
    [][\A s \in Sessions :
          /\ (last'.op = "BusinessesReturn" /\ last'.s = s /\ BusinessMissing(s))
                => /\ business'[s] = Null /\ product'[s] = product[s]
                   /\ pcBoot'[s] = "chatLogs" /\ loading'[s]
          /\ (last'.op = "HistoryReturn" /\ last'.s = s /\ BusinessMissing(s))
                => /\ business'[s] = Null /\ product'[s] = product[s]
                   /\ pcBoot'[s] = "done" /\ ~loading'[s]
                   /\ messages'[s] = <<WelcomeMessage(product[s])>>
                   /\ showEscalation'[s] =
                         (Len(ListUnhelpful(chatLogs, product[s].id)) >= BootThreshold)
                   /\ SendAccepts(<<"a">>, product'[s], sending'[s])]_vars

\* a question was answered in a chat whose business record is missing
C26_Witness ==
    /\ BusinessMissing(1) /\ business[1] = Null
    /\ hist[1].histAtBoot >= 0 /\ pcBoot[1] = "done"
    /\ messages[1][1] = WelcomeMessage(product[1])
    /\ last.op = "LogReturn" /\ last.s = 1

\* The model names sendMessage passes to generateText
GeneratorModels == {"gpt-4o-mini"}

\* C27: whatever model identifier the product carries (the known 'gpt4o', an
\* unknown one, none), sendMessage calls the generator with a model name of
\* the generator and at most 300 output tokens, and the identifier never
\* makes sendMessage refuse or fail before the call: an accepted question
\* always starts a generator call.
C27_ModelFallback ==
    [][\A s \in Sessions :
          /\ \A i \in 1..Len(sends'[s]) :
                /\ sends'[s][i].model \in GeneratorModels
                /\ sends'[s][i].maxTokens = MaxTokens
          /\ (last'.op = "SendMessage" /\ last'.s = s)
                => /\ Len(sends'[s]) = Len(sends[s]) + 1
                   /\ sends'[s][Len(sends'[s])].pc = "generateText"
                   /\ unhandled'[s] = unhandled[s]
          /\ (product'[s] # Null /\ ~sending'[s])
                => SendAccepts(<<"a">>, product'[s], sending'[s])]_vars

\* the generator was called, and has answered, for a product whose model
\* identifier is not the known one
C27_Witness ==
    /\ product[1] # Null /\ product[1].chosenModel # "gpt4o"
    /\ Len(sends[1]) = 1 /\ sends[1][1].pc = "chatLogs.create"
    /\ sends[1][1].model = "gpt-4o-mini" /\ sends[1][1].maxTokens = MaxTokens

\* C28: no unhelpful feedback is lost when handleFeedback calls overlap:
\* each call adds one to the current counter, so once the calls have settled
\* without a rejected request the counter equals the number of unhelpful
\* calls made, also when a call started while another awaited the Record
\* Store.
C28_OverlapKeepsCount ==
    \A s \in Sessions :
        (fbs[s] = <<>> /\ ~hist[s].fbFailed /\ ~lim.direct)
            => unhelpfulCount[s] = hist[s].fbFalse

\* C29: whenever bootstrap has finished with the product set (the chat is
\* rendered), the message sequence starts with the welcome message, also
\* when the businesses query or the history query was rejected after the
\* product was fetched.
C29_ChatStartsWithWelcome ==
    \A s \in Sessions :
        (pcBoot[s] = "done" /\ product[s] # Null)
            => /\ messages[s] # <<>>
               /\ messages[s][1].id = WelcomeId

\* The user the stored entry holds: none when there is no entry or its text
\* does not parse
Persisted(item) ==
    IF item.present /\ WellFormed(item.text) THEN Parse(item.text) ELSE Null

====
